---- MODULE Spec2Model ----
(***************************************************************************)
(* Model of src/tree-sitter-parser.js: class TreeSitterParser.             *)
(*                                                                         *)
(* One TreeSitterParser object is modelled.  Its fields functions,         *)
(* relations and imports are created by the constructor and live as long   *)
(* as the object.  parse() obtains a syntax tree, walks it with            *)
(* traverseTree (depth-first, pre-order) and returns the formatted         *)
(* relations.  One step of the model is one call of traverseTree on one    *)
(* node (everything the call does before it recurses into the children).   *)
(*                                                                         *)
(* Strings are sequences of one-character strings, so that template        *)
(* strings, String.split, Array.join and the regular expressions of the    *)
(* source are computed character by character.                             *)
(***************************************************************************)
EXTENDS Integers, Sequences, FiniteSets, TLC

\* ------------------------------------------------------------------------
\* Bounds of the model
\* ------------------------------------------------------------------------

\* top-level statements in all the files one object parses, taken together
MaxStmts == 2

\* calls of parse() on the one object
MaxParses == 2

\* ------------------------------------------------------------------------
\* JavaScript values
\* ------------------------------------------------------------------------

\* the value undefined (also stands for null): distinct from every string,
\* because every element of a string is a single character
Undefined == <<"#undefined">>

EmptyStr == <<>>

\* truthiness of a string-or-undefined value
Truthy(v) == v # Undefined /\ v # EmptyStr

\* template-string interpolation ${v}
Str(v) == IF v = Undefined THEN <<"u", "n", "d", "e", "f", "i", "n", "e", "d">> ELSE v

DigitChar == <<"0", "1", "2", "3", "4", "5", "6", "7", "8", "9">>

RECURSIVE NumStr(_)
\* template-string interpolation of a non-negative number
NumStr(n) == IF n < 10 THEN <<DigitChar[n + 1]>>
             ELSE NumStr(n \div 10) \o <<DigitChar[(n % 10) + 1]>>

UpperCase == {"A", "B", "C", "D", "E", "F", "G", "H", "I", "J", "K", "L", "M",
              "N", "O", "P", "Q", "R", "S", "T", "U", "V", "W", "X", "Y", "Z"}

\* /^[A-Z]/.test(s)
StartsUpper(s) == s # Undefined /\ Len(s) > 0 /\ s[1] \in UpperCase

RECURSIVE Split(_, _)
\* s.split(sep) for a one-character separator
Split(s, sep) ==
    IF \A i \in DOMAIN s : s[i] # sep THEN <<s>>
    ELSE LET k == CHOOSE i \in DOMAIN s :
                      s[i] = sep /\ \A j \in 1..(i - 1) : s[j] # sep
         IN  <<SubSeq(s, 1, k - 1)>> \o Split(SubSeq(s, k + 1, Len(s)), sep)

RECURSIVE Join(_, _)
\* parts.join(sep)
Join(parts, sep) ==
    IF parts = <<>> THEN EmptyStr
    ELSE IF Len(parts) = 1 THEN parts[1]
    ELSE parts[1] \o <<sep>> \o Join(Tail(parts), sep)

Reserved == {"<", ">", "{", "}", "|"}

RECURSIVE escapeMermaid(_)
\* str.replace(/[<>{}|]/g, '\\$&')
escapeMermaid(str) ==
    IF str = <<>> THEN <<>>
    ELSE (IF str[1] \in Reserved THEN <<"\\", str[1]>> ELSE <<str[1]>>)
         \o escapeMermaid(Tail(str))

\* ------------------------------------------------------------------------
\* Syntax trees (the values tree-sitter hands to the walker)
\* ------------------------------------------------------------------------

\* a node without a position yet
N(type, text, children) ==
    [type |-> type, text |-> text, children |-> children,
     startPosition |-> [row |-> 0, column |-> 0]]

RECURSIVE Place(_, _, _)
RECURSIVE PlaceChildren(_, _, _)
\* positions: a node's first child starts where the node starts, every
\* further child two columns later
Place(n, row, column) ==
    [type |-> n.type, text |-> n.text,
     startPosition |-> [row |-> row, column |-> column],
     children |-> PlaceChildren(n.children, row, column)]

PlaceChildren(children, row, column) ==
    IF children = <<>> THEN <<>>
    ELSE <<Place(Head(children), row, column)>>
         \o PlaceChildren(Tail(children), row, column + 2)

RECURSIVE NodeAt(_, _)
\* the node reached from root by a path of child indexes
NodeAt(root, path) ==
    IF path = <<>> THEN root ELSE NodeAt(root.children[Head(path)], Tail(path))

\* index of the first child whose type is in types, 0 if none
\* (Array.prototype.find over node.children)
FindType(children, types) ==
    IF \E i \in DOMAIN children : children[i].type \in types
    THEN CHOOSE i \in DOMAIN children :
             children[i].type \in types
             /\ \A j \in 1..(i - 1) : children[j].type \notin types
    ELSE 0

\* node.children.find(child => child.type === 'identifier')?.text
IdText(children) ==
    LET i == FindType(children, {"identifier"})
    IN  IF i = 0 THEN Undefined ELSE children[i].text

\* `${node.startPosition.row + 1}:${node.startPosition.column}`
Loc(node) ==
    NumStr(node.startPosition.row + 1) \o <<":">> \o NumStr(node.startPosition.column)

\* ------------------------------------------------------------------------
\* The object's tables
\* ------------------------------------------------------------------------

\* functions, relations and imports are the three Maps of the constructor.
\* relations is kept as the sequence of its entries in insertion order (the
\* iteration order of a Map).  threw records that a TypeError is travelling
\* up to the catch of parse().  calls is a history of the addRelation calls
\* made on the object; the program never reads it.
NewTables ==
    [functions |-> <<>>, relations |-> <<>>, imports |-> <<>>,
     calls |-> <<>>, threw |-> FALSE]

\* Map.prototype.has
Has(map, k) == k \in DOMAIN map

\* Map.prototype.set on a Map whose order is not observed
MapSet(map, k, v) == [x \in (DOMAIN map) \cup {k} |-> IF x = k THEN v ELSE map[x]]

\* the key of an edge: `${caller}:${callee}`
RelationKey(caller, callee) == Str(caller) \o <<":">> \o Str(callee)

HasRelation(relations, key) == \E i \in DOMAIN relations : relations[i].key = key

Throw(st) == [st EXCEPT !.threw = TRUE]

addFunction(st, name, location, type) ==
    IF ~Has(st.functions, name)
    THEN [st EXCEPT !.functions =
              MapSet(@, name, [type |-> type, location |-> location, calls |-> {}])]
    ELSE st

\* addRelation without the has() test: a later call replaces the location
addRelationOverwrite(st, caller, callee, location) ==
    LET key == RelationKey(caller, callee)
        logged == [st EXCEPT !.calls =
                       Append(@, [caller |-> caller, callee |-> callee,
                                  location |-> location])]
    IN  IF ~HasRelation(st.relations, key)
        THEN [logged EXCEPT
                 !.relations = Append(@, [key |-> key, location |-> location])]
        ELSE [logged EXCEPT
                 !.relations = [i \in DOMAIN @ |->
                                   IF @[i].key = key
                                   THEN [key |-> key, location |-> location]
                                   ELSE @[i]]]

\* addRelation that puts a new edge in front of the older ones
addRelationInFront(st, caller, callee, location) ==
    LET key == RelationKey(caller, callee)
        logged == [st EXCEPT !.calls =
                       Append(@, [caller |-> caller, callee |-> callee,
                                  location |-> location])]
    IN  IF ~HasRelation(st.relations, key)
        THEN [logged EXCEPT
                 !.relations = <<[key |-> key, location |-> location]>> \o @]
        ELSE logged

addRelation(st, caller, callee, location) ==
    LET key == RelationKey(caller, callee)
        logged == [st EXCEPT !.calls =
                       Append(@, [caller |-> caller, callee |-> callee,
                                  location |-> location])]
    IN  IF ~HasRelation(st.relations, key)
        THEN [logged EXCEPT
                 !.relations = Append(@, [key |-> key, location |-> location]),
                 !.functions = IF Has(st.functions, caller)
                               THEN [@ EXCEPT ![caller].calls = @ \cup {callee}]
                               ELSE @]
        ELSE logged

\* this.functions.has(name) || this.imports.has(name)
Known(st, name) == Has(st.functions, name) \/ Has(st.imports, name)

\* ------------------------------------------------------------------------
\* Name extraction
\* ------------------------------------------------------------------------

\* the result of getFullName: a name, or a TypeError (node.parent is null)
getFullName(tree, path, parentClass) ==
    LET node == NodeAt(tree, path)
        parent == NodeAt(tree, SubSeq(path, 1, Len(path) - 1))
        noParent == node.type = "arrow_function" /\ path = <<>>
        name ==
            CASE node.type \in {"function_declaration",
                                "generator_function_declaration",
                                "method_definition"} -> IdText(node.children)
              [] node.type = "class_declaration" -> IdText(node.children)
              [] node.type = "arrow_function" /\ ~noParent ->
                    IF parent.type = "variable_declarator"
                    THEN IdText(parent.children) ELSE EmptyStr
              [] OTHER -> EmptyStr
    IN  [threw |-> noParent,
         name  |-> IF Truthy(parentClass)
                   THEN Str(parentClass) \o <<".">> \o Str(name)
                   ELSE name]

RECURSIVE MemberParts(_)
\* the parts array built by the loop of getMemberExpressionName
MemberParts(current) ==
    IF current.type = "identifier" THEN <<current.text>>
    ELSE IF current.type = "member_expression"
    THEN LET p  == FindType(current.children, {"property_identifier"})
             nx == FindType(current.children, {"identifier", "member_expression"})
         IN  (IF nx = 0 THEN <<>> ELSE MemberParts(current.children[nx]))
             \o (IF p = 0 THEN <<>> ELSE <<current.children[p].text>>)
    ELSE <<>>

getMemberExpressionName(node) == Join(MemberParts(node), ".")

\* ------------------------------------------------------------------------
\* Handlers of the walk
\* ------------------------------------------------------------------------

\* this.imports.set(name, `import:${name}`)
BindImport(st, name) ==
    [st EXCEPT !.imports =
         MapSet(@, name, <<"i", "m", "p", "o", "r", "t", ":">> \o Str(name))]

RECURSIVE BindSpecifiers(_, _)
\* the forEach over the import_specifier children
BindSpecifiers(st, specifiers) ==
    IF specifiers = <<>> THEN st
    ELSE LET i == FindType(Head(specifiers).children, {"identifier"})
         IN  IF i = 0 THEN Throw(st)
             ELSE BindSpecifiers(BindImport(st, Head(specifiers).children[i].text),
                                 Tail(specifiers))

IsDefaultImport(child) ==
    \/ child.type = "identifier"
    \/ /\ child.type = "import_clause"
       /\ \E i \in DOMAIN child.children : child.children[i].type = "identifier"

IsSpecifier(child) == child.type = "import_specifier"

processImports(st, node) ==
    IF node.type \in {"import_statement", "import_declaration"}
    THEN LET ch == node.children
             di == IF \E i \in DOMAIN ch : IsDefaultImport(ch[i])
                   THEN CHOOSE i \in DOMAIN ch :
                            IsDefaultImport(ch[i])
                            /\ \A j \in 1..(i - 1) : ~IsDefaultImport(ch[j])
                   ELSE 0
             ni == FindType(ch, {"named_imports", "import_clause"})
             st1 == IF di = 0 THEN st
                    ELSE BindImport(st, IF ch[di].type = "identifier"
                                        THEN ch[di].text
                                        ELSE IdText(ch[di].children))
         IN  IF ni = 0 THEN st1
             ELSE BindSpecifiers(st1, SelectSeq(ch[ni].children, IsSpecifier))
    ELSE st

processVariableDeclaration(st, node, currentScope) ==
    LET d == FindType(node.children, {"variable_declarator"})
    IN  IF d = 0 THEN st
        ELSE LET dch == node.children[d].children
                 i == FindType(dch, {"identifier"})
                 v == FindType(dch, {"call_expression", "member_expression"})
             IN  IF i = 0 \/ v = 0 THEN st
                 ELSE LET varName == dch[i].text
                          value == dch[v]
                          declared(s) ==
                              [s EXCEPT !.functions =
                                   MapSet(@, varName,
                                          [type |-> "variable",
                                           location |-> node.startPosition.row + 1,
                                           calls |-> {}])]
                      IN  IF value.type = "call_expression"
                          THEN IF value.children = <<>> THEN Throw(st)
                               ELSE IF value.children[1].type = "identifier"
                               THEN declared(addRelation(st, currentScope,
                                                         value.children[1].text,
                                                         Loc(node)))
                               ELSE declared(st)
                          ELSE declared(st)

processCallExpression(st, node, currentScope) ==
    IF Len(node.children) >= 1
    THEN LET calleeNode == node.children[1]
             calleeName ==
                 IF calleeNode.type = "identifier" THEN calleeNode.text
                 ELSE IF calleeNode.type = "member_expression"
                 THEN getMemberExpressionName(calleeNode)
                 ELSE EmptyStr
         IN  IF Truthy(calleeName) /\ Known(st, calleeName)
             THEN addRelation(st, currentScope, calleeName, Loc(node))
             ELSE st
    ELSE st

\* one jsx_attribute of an element
JSXAttribute(st, attr, currentScope) ==
    LET e == FindType(attr.children, {"jsx_expression"})
    IN  IF e = 0 THEN st
        ELSE LET ech == attr.children[e].children
                 c == FindType(ech, {"identifier", "call_expression",
                                     "member_expression"})
             IN  IF c = 0 THEN st
                 ELSE IF ech[c].type = "call_expression"
                 THEN processCallExpression(st, ech[c], currentScope)
                 ELSE IF ech[c].type = "identifier"
                 THEN IF Known(st, ech[c].text)
                      THEN addRelation(st, currentScope, ech[c].text, Loc(ech[c]))
                      ELSE st
                 ELSE st

RECURSIVE JSXAttributes(_, _, _)
JSXAttributes(st, attrs, currentScope) ==
    IF attrs = <<>> THEN st
    ELSE JSXAttributes(JSXAttribute(st, Head(attrs), currentScope),
                       Tail(attrs), currentScope)

IsAttribute(child) == child.type = "jsx_attribute"

\* the body of elements.forEach for one element
JSXOne(st, element, currentScope) ==
    LET t == FindType(element.children, {"identifier"})
        componentName == IF t = 0 THEN Undefined ELSE element.children[t].text
        st1 == IF t # 0 /\ StartsUpper(componentName)
                  /\ (Has(st.imports, componentName) \/ Has(st.functions, componentName))
               THEN addRelation(st, currentScope, componentName, Loc(element))
               ELSE st
    IN  JSXAttributes(st1, SelectSeq(element.children, IsAttribute), currentScope)

RECURSIVE JSXElements(_, _, _)
JSXElements(st, elements, currentScope) ==
    IF elements = <<>> THEN st
    ELSE JSXElements(JSXOne(st, Head(elements), currentScope),
                     Tail(elements), currentScope)

IsChildElement(child) == child.type \in {"jsx_element", "jsx_self_closing_element"}

processJSXElement(st, node, currentScope) ==
    LET o == FindType(node.children, {"jsx_opening_element",
                                      "jsx_self_closing_element"})
        elements == (IF o = 0 THEN <<>> ELSE <<node.children[o]>>)
                    \o SelectSeq(node.children, IsChildElement)
    IN  JSXElements(st, elements, currentScope)

\* the body of traverseTree for one node, up to the loop over the children:
\* the tables after it and the context handed to the children
traverseTree(st, tree, frame) ==
    LET node == NodeAt(tree, frame.path)
        st0 == processImports(st, node)
        same(s) == [st |-> s, parentClass |-> frame.parentClass,
                    currentScope |-> frame.currentScope]
    IN  IF st0.threw THEN same(st0)
        ELSE CASE node.type = "class_declaration" ->
                    LET className == getFullName(tree, frame.path, Undefined).name
                    IN  [st |-> addFunction(st0, className,
                                            node.startPosition.row + 1, "class"),
                         parentClass |-> className,
                         currentScope |-> frame.currentScope]
               [] node.type \in {"function_declaration",
                                 "generator_function_declaration",
                                 "method_definition"} ->
                    LET funcName == getFullName(tree, frame.path,
                                                frame.parentClass).name
                    IN  IF Truthy(funcName)
                        THEN [st |-> addFunction(st0, funcName,
                                                 node.startPosition.row + 1,
                                                 "function"),
                              parentClass |-> frame.parentClass,
                              currentScope |-> funcName]
                        ELSE same(st0)
               [] node.type = "arrow_function" ->
                    LET r == getFullName(tree, frame.path, frame.parentClass)
                    IN  IF r.threw THEN same(Throw(st0))
                        ELSE IF Truthy(r.name)
                        THEN [st |-> addFunction(st0, r.name,
                                                 node.startPosition.row + 1,
                                                 "arrow"),
                              parentClass |-> frame.parentClass,
                              currentScope |-> r.name]
                        ELSE same(st0)
               [] node.type = "call_expression" ->
                    same(processCallExpression(st0, node, frame.currentScope))
               [] node.type \in {"jsx_element", "jsx_self_closing_element"} ->
                    same(processJSXElement(st0, node, frame.currentScope))
               [] node.type \in {"lexical_declaration", "variable_declaration"} ->
                    same(processVariableDeclaration(st0, node, frame.currentScope))
               [] OTHER -> same(st0)

\* the formatting at the end of parse()
FormatResults(relations) ==
    [i \in DOMAIN relations |->
        LET parts == Split(relations[i].key, ":")
            caller == parts[1]
            callee == IF Len(parts) >= 2 THEN parts[2] ELSE Undefined
        IN  <<escapeMermaid(relations[i].location \o <<":", " ">> \o Str(caller)),
              escapeMermaid(Str(callee))>>]

\* ------------------------------------------------------------------------
\* The files parsed: programs made of top-level statements
\* ------------------------------------------------------------------------

\* The trees keep the named nodes of the grammar; keywords and punctuation
\* are left out (no handler looks for them).

Id(c) == N("identifier", <<c>>, <<>>)

Prop(c) == N("property_identifier", <<c>>, <<>>)

\* f(args)
Call(f, args) == N("call_expression", <<>>, <<Id(f), N("arguments", <<>>, args)>>)

ExprStmt(e) == N("expression_statement", <<>>, <<e>>)

Block(stmts) == N("statement_block", <<>>, stmts)

\* function name() { body }
Func(name, body) == N("function_declaration", <<>>, <<Id(name), Block(body)>>)

\* () => body
Arrow(body) == N("arrow_function", <<>>, <<body>>)

\* const <ids> = value
Const(idNodes, value) ==
    N("lexical_declaration", <<>>,
      <<N("variable_declarator", <<>>, idNodes \o <<value>>)>>)

\* <tag attrs />
SelfClosing(tag, attrs) ==
    N("jsx_self_closing_element", <<>>, <<Id(tag)>> \o attrs)

\* name={content}
Attr(name, content) ==
    N("jsx_attribute", <<>>,
      <<Prop(name), N("jsx_expression", <<>>, <<content>>)>>)

\* import D from 'm'
ImportDefault ==
    N("import_statement", <<>>,
      <<N("import_clause", <<>>, <<Id("D")>>), N("string", <<>>, <<>>)>>)

\* import { f as g } from 'm'
ImportAlias ==
    N("import_statement", <<>>,
      <<N("named_imports", <<>>,
          <<N("import_specifier", <<>>, <<Id("f"), Id("g")>>)>>),
        N("string", <<>>, <<>>)>>)

\* import { x, "s" } from 'm': the second specifier has no identifier child
ImportBad ==
    N("import_statement", <<>>,
      <<N("named_imports", <<>>,
          <<N("import_specifier", <<>>, <<Id("x")>>),
            N("import_specifier", <<>>, <<N("string", <<>>, <<>>)>>)>>),
        N("string", <<>>, <<>>)>>)

\* function f() { g(() => D()) }
FuncF == Func("f", <<ExprStmt(Call("g", <<Arrow(Call("D", <<>>))>>))>>)

\* function g() { g(); f(); g() }
FuncG ==
    Func("g", <<ExprStmt(Call("g", <<>>)), ExprStmt(Call("f", <<>>)),
                ExprStmt(Call("g", <<>>))>>)

\* const f = g()
VarCall == Const(<<Id("f")>>, Call("g", <<>>))

\* const x = <a call expression without children>
VarBad == Const(<<Id("x")>>, N("call_expression", <<>>, <<>>))

\* const x = C.m()
VarMember ==
    Const(<<Id("x")>>,
          N("call_expression", <<>>,
            <<N("member_expression", <<>>, <<Id("C"), Prop("m")>>),
              N("arguments", <<>>, <<>>)>>))

\* const h = () => f()
NamedArrow == Const(<<Id("h")>>, Arrow(Call("f", <<>>)))

\* class C { m() { f(() => g()) }  n() { f() } }
\* m has an identifier child; n has a property_identifier child only
ClassC ==
    N("class_declaration", <<>>,
      <<Id("C"),
        N("class_body", <<>>,
          <<N("method_definition", <<>>,
              <<Id("m"), Block(<<ExprStmt(Call("f", <<Arrow(Call("g", <<>>))>>))>>)>>),
            N("method_definition", <<>>,
              <<Prop("n"), Block(<<ExprStmt(Call("f", <<>>))>>)>>)>>)>>)

\* class { () { g() } }: neither the class nor the method has an identifier
ClassNoId ==
    N("class_declaration", <<>>,
      <<N("class_body", <<>>,
          <<N("method_definition", <<>>,
              <<Block(<<ExprStmt(Call("g", <<>>))>>)>>)>>)>>)

\* function A() { return <R element={<D/>} /> }
Route ==
    Func("A", <<N("return_statement", <<>>,
                  <<SelfClosing("R", <<Attr("element", SelfClosing("D", <<>>))>>)>>)>>)

\* function B() { return <d x={g}> <D y={f()}/> <R element={<D/>}/> </d> }
Markup ==
    Func("B", <<N("return_statement", <<>>,
                  <<N("jsx_element", <<>>,
                      <<N("jsx_opening_element", <<>>,
                          <<Id("d"), Attr("x", Id("g"))>>),
                        SelfClosing("D", <<Attr("y", Call("f", <<>>))>>),
                        SelfClosing("R", <<Attr("element", SelfClosing("D", <<>>))>>),
                        N("jsx_closing_element", <<>>, <<Id("d")>>)>>)>>)>>)

Stmts ==
    {ImportDefault, ImportAlias, ImportBad, FuncF, FuncG, VarCall, VarBad,
     VarMember, NamedArrow, ClassC, ClassNoId, Route, Markup}

RECURSIVE ProgramChildren(_, _)
ProgramChildren(stmts, line) ==
    IF line > Len(stmts) THEN <<>>
    ELSE <<Place(stmts[line], line - 1, 0)>> \o ProgramChildren(stmts, line + 1)

\* this.parser.parse(content).rootNode: statement i stands on line i
Program(stmts) ==
    [type |-> "program", text |-> <<>>,
     startPosition |-> [row |-> 0, column |-> 0],
     children |-> ProgramChildren(stmts, 1)]

\* ------------------------------------------------------------------------
\* State
\* ------------------------------------------------------------------------

VARIABLES
    obj,          \* the tables of the TreeSitterParser object
    fresh,        \* the tables of an object constructed for the current call
    tree,         \* tree.rootNode of the current parse() call
    stack,        \* pending traverseTree calls, the next one first
    pc,           \* "idle" between calls of parse(), "walking" inside one
    result,       \* what the last parse() call returned
    freshResult,  \* what the object constructed for that call returned
    outcome,      \* how the last parse() call ended
    parses,       \* number of parse() calls made
    stmtsUsed     \* number of top-level statements parsed so far

vars == <<obj, fresh, tree, stack, pc, result, freshResult, outcome, parses, stmtsUsed>>

global == <<"g", "l", "o", "b", "a", "l">>

Init ==
    /\ obj = NewTables
    /\ fresh = NewTables
    /\ tree = Program(<<>>)
    /\ stack = <<>>
    /\ pc = "idle"
    /\ result = <<>>
    /\ freshResult = <<>>
    /\ outcome = "none"
    /\ parses = 0
    /\ stmtsUsed = 0

\* ------------------------------------------------------------------------
\* Actions
\* ------------------------------------------------------------------------

\* parse(filePath) of a file of one or more statements whose extension has a
\* grammar, up to the first traverseTree call
ParseStart ==
    /\ pc = "idle"
    /\ parses < MaxParses
    /\ \E k \in 1..(MaxStmts - stmtsUsed) :
          \E stmts \in [1..k -> Stmts] :
             /\ tree' = Program(stmts)
             /\ stmtsUsed' = stmtsUsed + k
    /\ parses' = parses + 1
    /\ pc' = "walking"
    /\ stack' = <<[path |-> <<>>, parentClass |-> Undefined, currentScope |-> global]>>
    /\ fresh' = NewTables
    /\ UNCHANGED <<obj, result, freshResult, outcome>>

Walking == pc = "walking" /\ ~obj.threw /\ stack # <<>>

\* the node of the next traverseTree call
Cur == NodeAt(tree, Head(stack).path)

\* one traverseTree call: the node's own processing, then its children are
\* queued in order, ahead of the node's later siblings
Visit ==
    LET frame == Head(stack)
        node == Cur
    IN  \E r \in {traverseTree(obj, tree, frame)} :
        \E rf \in {traverseTree(fresh, tree, frame)} :
           /\ obj' = r.st
           /\ fresh' = rf.st
           /\ stack' = IF r.st.threw THEN stack
                       ELSE [k \in DOMAIN node.children |->
                                [path |-> Append(frame.path, k),
                                 parentClass |-> r.parentClass,
                                 currentScope |-> r.currentScope]] \o Tail(stack)
           /\ UNCHANGED <<tree, pc, result, freshResult, outcome, parses, stmtsUsed>>

VisitImport ==
    /\ Walking
    /\ Cur.type \in {"import_statement", "import_declaration"}
    /\ Visit

VisitClass ==
    /\ Walking
    /\ Cur.type = "class_declaration"
    /\ Visit

VisitFunction ==
    /\ Walking
    /\ Cur.type \in {"function_declaration", "generator_function_declaration",
                     "method_definition"}
    /\ Visit

VisitArrow ==
    /\ Walking
    /\ Cur.type = "arrow_function"
    /\ Visit

VisitCall ==
    /\ Walking
    /\ Cur.type = "call_expression"
    /\ Visit

VisitJSX ==
    /\ Walking
    /\ Cur.type \in {"jsx_element", "jsx_self_closing_element"}
    /\ Visit

VisitVariableDeclaration ==
    /\ Walking
    /\ Cur.type \in {"lexical_declaration", "variable_declaration"}
    /\ Visit

VisitOther ==
    /\ Walking
    /\ Cur.type \notin {"import_statement", "import_declaration",
                        "class_declaration", "function_declaration",
                        "generator_function_declaration", "method_definition",
                        "arrow_function", "call_expression", "jsx_element",
                        "jsx_self_closing_element", "lexical_declaration",
                        "variable_declaration"}
    /\ Visit

\* the walk is over: parse() formats the relations and returns them
ParseReturn ==
    /\ pc = "walking"
    /\ ~obj.threw
    /\ stack = <<>>
    /\ result' = FormatResults(obj.relations)
    /\ freshResult' = FormatResults(fresh.relations)
    /\ outcome' = "ok"
    /\ pc' = "idle"
    /\ UNCHANGED <<obj, fresh, tree, stack, parses, stmtsUsed>>

\* the catch of parse(): the error is logged and '[]' is returned
ParseCatch ==
    /\ pc = "walking"
    /\ obj.threw
    /\ result' = <<>>
    /\ freshResult' = <<>>
    /\ outcome' = "error"
    /\ pc' = "idle"
    /\ obj' = [obj EXCEPT !.threw = FALSE]
    /\ fresh' = [fresh EXCEPT !.threw = FALSE]
    /\ stack' = <<>>
    /\ UNCHANGED <<tree, parses, stmtsUsed>>

Next ==
    \/ ParseStart
    \/ VisitImport
    \/ VisitClass
    \/ VisitFunction
    \/ VisitArrow
    \/ VisitCall
    \/ VisitJSX
    \/ VisitVariableDeclaration
    \/ VisitOther
    \/ ParseReturn
    \/ ParseCatch

Spec == Init /\ [][Next]_vars

\* ------------------------------------------------------------------------
\* Reading the state and the returned value
\* ------------------------------------------------------------------------

\* the caller written in a label "<location>: <caller>" of the result
LabelCaller(label) ==
    LET k == CHOOSE i \in DOMAIN label :
                 label[i] = " " /\ \A j \in 1..(i - 1) : label[j] # " "
    IN  SubSeq(label, k + 1, Len(label))

\* the (caller, callee) pair of one entry of the result
ResultPair(entry) == <<LabelCaller(entry[1]), entry[2]>>

CallPair(c) == <<c.caller, c.callee>>

\* was addRelation ever called for this pair
Called(pair) == \E n \in DOMAIN obj.calls : CallPair(obj.calls[n]) = pair

\* position in the history of the first addRelation call for a pair
FirstCall(pair) ==
    CHOOSE n \in DOMAIN obj.calls :
        /\ CallPair(obj.calls[n]) = pair
        /\ \A m \in 1..(n - 1) : CallPair(obj.calls[m]) # pair

Returned == pc = "idle" /\ outcome = "ok"

\* the visit of the next node, as a step
VisitStep == Walking /\ stack' # stack

\* entries of relations inserted by the step
NewEdges == (Len(obj.relations) + 1)..Len(obj'.relations)

\* ------------------------------------------------------------------------
\* Properties
\* ------------------------------------------------------------------------

\* C1: the edge store holds exactly one entry per (caller, callee) pair that
\* addRelation was called for, the entry carries the location of the first
\* call for the pair whatever later calls pass, and the returned sequence
\* has no two entries with the same caller and callee.
C1_OneEdgePerPair ==
    /\ Len(obj.relations) = Cardinality({CallPair(obj.calls[n]) : n \in DOMAIN obj.calls})
    /\ \A n \in DOMAIN obj.calls :
          LET c == obj.calls[n]
              first == obj.calls[FirstCall(CallPair(c))]
          IN  \E i \in DOMAIN obj.relations :
                 /\ obj.relations[i].key = RelationKey(c.caller, c.callee)
                 /\ obj.relations[i].location = first.location
    /\ \A i, j \in DOMAIN result :
          i # j => ResultPair(result[i]) # ResultPair(result[j])

\* a parse has returned edges after addRelation was called twice for one
\* pair, with two different locations
C1_Witness ==
    /\ Returned
    /\ result # <<>>
    /\ \E m, n \in DOMAIN obj.calls :
          /\ m < n
          /\ CallPair(obj.calls[m]) = CallPair(obj.calls[n])
          /\ obj.calls[m].location # obj.calls[n].location

\* C2: at the moment an edge is inserted, its callee is a key of functions
\* or of imports, whatever kind of node inserts it.
C2_CalleeKnownAtInsertion ==
    [][\A n \in (Len(obj.calls) + 1)..Len(obj'.calls) :
          LET c == obj'.calls[n]
          IN  ~HasRelation(obj.relations, RelationKey(c.caller, c.callee))
                  => Known(obj, c.callee)]_vars

\* is the arrow function at this path the initializer of a variable
\* declarator that has an identifier
NamedArrowAt(path) ==
    /\ path # <<>>
    /\ LET parent == NodeAt(tree, SubSeq(path, 1, Len(path) - 1))
       IN  parent.type = "variable_declarator" /\ IdText(parent.children) # Undefined

\* C3: a wrapper that is not a named declaration (an arrow function that is
\* not the initializer of a named declarator) leaves currentScope as it is
\* for its subtree and declares no symbol, inside a class or not.
C3_WrapperKeepsScope ==
    [][(VisitStep /\ Cur.type = "arrow_function" /\ ~NamedArrowAt(Head(stack).path))
          => /\ DOMAIN obj'.functions = DOMAIN obj.functions
             /\ \A k \in DOMAIN Cur.children :
                   stack'[k].currentScope = Head(stack).currentScope]_vars

\* C4: the returned sequence is in insertion order: of two entries, the one
\* whose pair had its first addRelation call earlier comes first.
C4_InsertionOrder ==
    Returned =>
        \A i, j \in DOMAIN result :
            i # j =>
                /\ Called(ResultPair(result[i]))
                /\ Called(ResultPair(result[j]))
                /\ (i < j <=> FirstCall(ResultPair(result[i]))
                                 < FirstCall(ResultPair(result[j])))

\* a parse has returned two or more edges, and some addRelation call was a
\* repetition
C4_Witness ==
    /\ Returned
    /\ Len(result) >= 2
    /\ Len(obj.calls) > Len(obj.relations)

\* C5: every parse call returns what an object constructed for that call
\* returns for the same tree.
C5_SameAsFreshObject == pc = "idle" => result = freshResult

\* C6: a node that lacks an expected sub-node does not cost the edges
\* resolved from the rest of the tree: parse returns every edge of the edge
\* store.  Stated for the first parse() call of the object, where every edge
\* of the store was resolved from the tree of that call.
C6_PartialResultsReturned ==
    (pc = "idle" /\ parses = 1) => result = FormatResults(obj.relations)

\* the tag name of a markup element
TagName(node) ==
    IF node.type = "jsx_self_closing_element" THEN IdText(node.children)
    ELSE LET o == FindType(node.children, {"jsx_opening_element"})
         IN  IF o = 0 THEN Undefined ELSE IdText(node.children[o].children)

\* C7: once a markup element whose tag name starts with an upper-case letter
\* and is a known import alias has been visited, the edge from the current
\* scope to the tag name exists; self-closing or not, child tag or inside an
\* attribute expression.  Stated for the first parse() call of the object,
\* where every alias was imported by the file of that call.
C7_MarkupEdge ==
    [][(VisitStep /\ parses = 1
            /\ Cur.type \in {"jsx_element", "jsx_self_closing_element"}
            /\ StartsUpper(TagName(Cur)) /\ Has(obj.imports, TagName(Cur)))
          => HasRelation(obj'.relations,
                         RelationKey(Head(stack).currentScope, TagName(Cur)))]_vars

IsIdentifier(child) == child.type = "identifier"

\* the import_specifier nodes below an import statement
Specifiers(node) ==
    LET ni == FindType(node.children, {"named_imports", "import_clause"})
    IN  IF ni = 0 THEN <<>> ELSE SelectSeq(node.children[ni].children, IsSpecifier)

\* C8: after an import statement is visited, every specifier 'X as Y' (its
\* identifier children are X then Y) has its local alias Y as a key of the
\* import table.
C8_AliasIsKey ==
    [][(VisitStep /\ Cur.type \in {"import_statement", "import_declaration"})
          => \A s \in DOMAIN Specifiers(Cur) :
                LET ids == SelectSeq(Specifiers(Cur)[s].children, IsIdentifier)
                IN  Len(ids) >= 2 => Has(obj'.imports, ids[Len(ids)].text)]_vars

\* the call used as initializer by a variable declaration, as
\* processVariableDeclaration finds it
InitializerOf(node) ==
    LET dch == node.children[FindType(node.children, {"variable_declarator"})].children
    IN  dch[FindType(dch, {"call_expression", "member_expression"})]

\* C9: the location of an edge is that of the triggering occurrence: for a
\* call used as a variable initializer it is the position of the call, not
\* that of the declaration statement.
C9_LocationOfOccurrence ==
    [][(VisitStep /\ Cur.type \in {"lexical_declaration", "variable_declaration"})
          => \A i \in NewEdges :
                obj'.relations[i].location = Loc(InitializerOf(Cur))]_vars

\* C10: a symbol table entry is never deleted or replaced: its kind and its
\* declaration line stay, its callee set only grows.
C10_FirstDeclarationWins ==
    [][\A name \in DOMAIN obj.functions :
          /\ name \in DOMAIN obj'.functions
          /\ obj'.functions[name].type = obj.functions[name].type
          /\ obj'.functions[name].location = obj.functions[name].location
          /\ obj.functions[name].calls \subseteq obj'.functions[name].calls]_vars

====
